---- MODULE Spec2Model ----
(***************************************************************************)
(* Model of the group assignment engine of main.py: validate_inputs,       *)
(* calculate_collisions, systematic_country_assignment,                    *)
(* optimized_systematic_assignment, improved_assign_competitors and the    *)
(* run_draw handler that calls them on the stored datasets.                *)
(***************************************************************************)
EXTENDS Integers, Sequences, FiniteSets, TLC

(***************************************************************************)
(* Bounds of the model.                                                    *)
(***************************************************************************)
\* largest max_time_seconds a request carries; budgets are 0..MaxBudget
MaxBudget == 1
\* largest explicit random_seed a request carries; seeds are 0..MaxSeed
MaxSeed == 1

(***************************************************************************)
(* Python values.                                                          *)
(***************************************************************************)
\* None and a present value of an optional (random_seed, best_assignment)
None == <<>>
Some(x) == <<x>>
Val(o) == o[1]

\* float("inf"), kept apart from every count (counts are >= 0)
Inf == -1
\* a count equal to the best also passes (<= for the < of line 289)
LessOrEqual(a, b) == IF b = Inf THEN a # Inf ELSE a # Inf /\ a <= b

\* current < best, line 289, with best possibly float("inf")
Less(a, b) == IF b = Inf THEN a # Inf ELSE a # Inf /\ a < b

Min(a, b) == IF a < b THEN a ELSE b

\* dict[k] = v on a dict modelled as a function
Put(d, k, v) == [x \in (DOMAIN d) \cup {k} |-> IF x = k THEN v ELSE d[x]]
EmptyDict == <<>>

\* defaultdict(int)[k]
Get0(d, k) == IF k \in DOMAIN d THEN d[k] ELSE 0

Range(s) == {s[i] : i \in DOMAIN s}

RECURSIVE SumSeq(_)
SumSeq(s) == IF s = <<>> THEN 0 ELSE Head(s) + SumSeq(Tail(s))

RECURSIVE SumOver(_, _)
\* the sum of f[x] over x in S
SumOver(S, f) ==
    IF S = {} THEN 0
    ELSE LET x == CHOOSE y \in S : TRUE IN f[x] + SumOver(S \ {x}, f)

(***************************************************************************)
(* Identifiers.  A group id is an int or a string in the uploaded JSON;    *)
(* str() turns both into the string.                                       *)
(***************************************************************************)
IntId(n) == <<"int", n>>
StrId(n) == <<"str", n>>
\* str(group_id)
Str(id) == <<"str", id[2]>>

\* ["a", "b", "c", "d"]
Letters == <<"a", "b", "c", "d">>

\* Group.__init__
Group(id, capacity, label) ==
    [id |-> Str(id), capacity |-> capacity, label |-> label,
     positions |-> SubSeq(Letters, 1, Min(capacity, Len(Letters))),
     assigned_positions |-> EmptyDict]

\* Competitor.__init__ (id and name are the same key in upload_competitors)
Competitor(name, country) == [name |-> name, country |-> country]

\* one entry of fixed_positions: comp_name -> (group_id, position)
Pin(name, gid, pos) == [name |-> name, group_id |-> gid, position |-> pos]

\* dict views of the ordered datasets
CompNames(competitors) == {competitors[i].name : i \in DOMAIN competitors}
CountryOf(competitors, name) ==
    (CHOOSE c \in Range(competitors) : c.name = name).country
GroupIds(groups) == {groups[i].id : i \in DOMAIN groups}
GroupIdx(groups, gid) == CHOOSE i \in DOMAIN groups : groups[i].id = gid
GroupOf(groups, gid) == groups[GroupIdx(groups, gid)]
PinNames(fixed_positions) == {fixed_positions[i].name : i \in DOMAIN fixed_positions}

(***************************************************************************)
(* validate_inputs.  The result is (ok, check that failed, pin or seat it   *)
(* names); the message text is left out.                                   *)
(***************************************************************************)
Valid == [ok |-> TRUE, error |-> "", at |-> <<>>]
Invalid(error, at) == [ok |-> FALSE, error |-> error, at |-> at]

\* the checks of one fixed position, lines 57-72
PinError(competitors, groups, pin) ==
    IF pin.name \notin CompNames(competitors) THEN "competitor"
    ELSE IF Str(pin.group_id) \notin GroupIds(groups) THEN "group"
    ELSE IF pin.position \notin Range(GroupOf(groups, Str(pin.group_id)).positions)
         THEN "position"
    ELSE ""

\* the seat a pin targets, as the key of position_assignments
PinSeat(pin) == <<Str(pin.group_id), pin.position>>

\* the duplicate check, lines 75-85: the first seat (in insertion order) that
\* more than one pin targets
DuplicateSeats(fixed_positions) ==
    {i \in DOMAIN fixed_positions :
        /\ \A j \in 1..(i - 1) : PinSeat(fixed_positions[j]) # PinSeat(fixed_positions[i])
        /\ \E j \in (i + 1)..Len(fixed_positions) :
              PinSeat(fixed_positions[j]) = PinSeat(fixed_positions[i])}

\* validate_inputs without its duplicate check (lines 75-85 left out)
validate_inputs_drop_duplicates(competitors, groups, fixed_positions) ==
    LET total_capacity == SumSeq([i \in DOMAIN groups |-> groups[i].capacity])
        bad == {i \in DOMAIN fixed_positions :
                   PinError(competitors, groups, fixed_positions[i]) # ""}
    IN  IF Len(competitors) # total_capacity
        THEN Invalid("count", <<Len(competitors), total_capacity>>)
        ELSE IF bad # {}
        THEN LET i == CHOOSE k \in bad : \A m \in bad : k <= m
             IN  Invalid(PinError(competitors, groups, fixed_positions[i]),
                         <<fixed_positions[i].name>>)
        ELSE Valid

\* lines 46-87
validate_inputs(competitors, groups, fixed_positions) ==
    LET total_capacity == SumSeq([i \in DOMAIN groups |-> groups[i].capacity])
        bad == {i \in DOMAIN fixed_positions :
                   PinError(competitors, groups, fixed_positions[i]) # ""}
        dup == DuplicateSeats(fixed_positions)
    IN  IF Len(competitors) # total_capacity
        THEN Invalid("count", <<Len(competitors), total_capacity>>)
        ELSE IF bad # {}
        THEN LET i == CHOOSE k \in bad : \A m \in bad : k <= m
             IN  Invalid(PinError(competitors, groups, fixed_positions[i]),
                         <<fixed_positions[i].name>>)
        ELSE IF dup # {}
        THEN LET i == CHOOSE k \in dup : \A m \in dup : k <= m
             IN  Invalid("duplicate", PinSeat(fixed_positions[i]))
        ELSE Valid

(***************************************************************************)
(* calculate_collisions(assignment, competitors, groups): assignment is    *)
(* the dict (group_id, position) -> competitor.                            *)
(***************************************************************************)
\* group_assignments[group_id], as the seats that hold the list's entries
SeatsOfGroup(assignment, gid) == {k \in DOMAIN assignment : k[1] = gid}

\* Counter(competitors[c].country for c in comp_ids)[country]
CountryCount(assignment, competitors, gid, country) ==
    Cardinality({k \in SeatsOfGroup(assignment, gid) :
                    CountryOf(competitors, assignment[k]) = country})

\* the pairs counted twice (the // 2 of line 108 left out)
PairsWrong(count) == IF count > 1 THEN count * (count - 1) ELSE 0

\* lines 105-110: what one (group, country) count adds
Pairs(count) == IF count > 1 THEN (count * (count - 1)) \div 2 ELSE 0

\* lines 90-112
calculate_collisions(assignment, competitors) ==
    LET gids == {k[1] : k \in DOMAIN assignment}
        countries(g) == {CountryOf(competitors, assignment[k]) :
                            k \in SeatsOfGroup(assignment, g)}
        cells == {<<g, c>> \in gids \X {CountryOf(competitors, assignment[k]) :
                                           k \in DOMAIN assignment} :
                     c \in countries(g)}
        pairs == [gc \in cells |->
                     Pairs(CountryCount(assignment, competitors, gc[1], gc[2]))]
        hit == {gc[2] : gc \in {x \in cells : pairs[x] > 0}}
    IN  [collision_count |-> SumOver(cells, pairs),
         per_country_collisions |->
             [c \in hit |-> SumOver({gc \in cells : gc[2] = c}, pairs)]]

(***************************************************************************)
(* The process-wide generator of the random module.  Its Mersenne Twister  *)
(* is not modelled bit for bit.  kind "any": the stream is left open, a    *)
(* draw returns any value of its range (every stream the library can       *)
(* produce is covered; seeding changes nothing that is observed).          *)
(* kind "lcg": a small deterministic generator with the same interface:    *)
(* seed() sets its state, every draw reads the state and advances it.      *)
(***************************************************************************)
AnyGen == [kind |-> "any"]
LcgGen(s) == [kind |-> "lcg", s |-> s]

LcgNext(s) == (5 * s + 3) % 16

RECURSIVE LcgNextK(_, _)
LcgNextK(s, k) == IF k = 0 THEN s ELSE LcgNextK(LcgNext(s), k - 1)

\* random.seed(a)
RandomSeed(g, a) == IF g.kind = "any" THEN g ELSE LcgGen((7 * a + 1) % 16)

\* the values the i-th draw from now (i = 0 first) may return for _randbelow(n)
DrawSet(g, i, n) ==
    IF g.kind = "any" THEN 0..(n - 1) ELSE {(LcgNextK(g.s, i) * n) \div 16}

\* the generator after k draws
Advance(g, k) == IF g.kind = "any" THEN g ELSE LcgGen(LcgNextK(g.s, k))

Swap(x, i, j) == [x EXCEPT ![i] = x[j], ![j] = x[i]]

RECURSIVE ShuffleWith(_, _, _)
\* random.shuffle(x): for i in reversed(range(1, len(x))): j = randbelow(i + 1);
\* x[i], x[j] = x[j], x[i].  ds[t] is the t-th j drawn.
ShuffleWith(x, ds, t) ==
    IF t > Len(ds) THEN x
    ELSE ShuffleWith(Swap(x, Len(x) - t + 1, ds[t] + 1), ds, t + 1)

\* the sequences of draws one random.shuffle of n elements may make
ShuffleDraws(g, n) ==
    IF n <= 1 THEN {<<>>}
    ELSE {ds \in [1..(n - 1) -> 0..(n - 1)] :
             \A t \in 1..(n - 1) : ds[t] \in DrawSet(g, t - 1, n - t + 1)}

(***************************************************************************)
(* systematic_country_assignment, lines 115-250, as steps over the local   *)
(* state sca of one pass and the groups dict the pass was handed.          *)
(***************************************************************************)
\* Assignment.__init__
Assignment ==
    [assignments |-> EmptyDict, collision_count |-> 0,
     per_country_collisions |-> EmptyDict, random_seed |-> None]

RECURSIVE PlaceFixed(_, _, _, _)
\* lines 131-135: the pins go into the assignment and into the groups
PlaceFixed(assignments, groups, fixed_positions, i) ==
    IF i > Len(fixed_positions) THEN [assignments |-> assignments, groups |-> groups]
    ELSE LET pin == fixed_positions[i]
             gi == GroupIdx(groups, Str(pin.group_id))
         IN  PlaceFixed(Put(assignments, PinSeat(pin), pin.name),
                        [groups EXCEPT ![gi].assigned_positions =
                            Put(@, pin.position, pin.name)],
                        fixed_positions, i + 1)

\* lines 138-140
RemainingCompetitors(competitors, fixed_positions) ==
    LET names == [i \in DOMAIN competitors |-> competitors[i].name]
    IN  SelectSeq(names, LAMBDA n : n \notin PinNames(fixed_positions))

RECURSIVE Dedup(_)
\* the keys of a dict in insertion order
Dedup(s) ==
    IF s = <<>> THEN <<>>
    ELSE LET rest == Dedup(SubSeq(s, 1, Len(s) - 1))
             x == s[Len(s)]
         IN  IF x \in Range(rest) THEN rest ELSE Append(rest, x)

\* lines 143-145: country_groups.items()
CountryGroups(competitors, remaining) ==
    LET keys == Dedup([i \in DOMAIN remaining |-> CountryOf(competitors, remaining[i])])
    IN  [i \in DOMAIN keys |->
            [country |-> keys[i],
             comp_names |-> SelectSeq(remaining,
                              LAMBDA n : CountryOf(competitors, n) = keys[i])]]

RECURSIVE SortedBySize(_)
\* lines 148-150: sorted(..., key=len, reverse=True); the sort is stable
SortedBySize(items) ==
    IF items = <<>> THEN <<>>
    ELSE LET rest == SortedBySize(SubSeq(items, 1, Len(items) - 1))
             x == items[Len(items)]
             before == {i \in DOMAIN rest : Len(rest[i].comp_names) >= Len(x.comp_names)}
             n == Cardinality(before)
         IN  SubSeq(rest, 1, n) \o <<x>> \o SubSeq(rest, n + 1, Len(rest))

\* the counts start empty: the pins are not counted (lines 156-160 left out)
FixedCountsNone(counts, competitors, fixed_positions, i) == counts

RECURSIVE FixedCounts(_, _, _, _)
\* lines 156-160
FixedCounts(counts, competitors, fixed_positions, i) ==
    IF i > Len(fixed_positions) THEN counts
    ELSE LET pin == fixed_positions[i]
             key == <<CountryOf(competitors, pin.name), Str(pin.group_id)>>
         IN  FixedCounts(Put(counts, key, Get0(counts, key) + 1),
                         competitors, fixed_positions, i + 1)

\* lines 127-160: the state of the pass before the first country is dealt
sca_begin(competitors, groups, fixed_positions, random_seed) ==
    LET placed == PlaceFixed(EmptyDict, groups, fixed_positions, 1)
        remaining == RemainingCompetitors(competitors, fixed_positions)
    IN  [sca |->
            [assignment |-> [Assignment EXCEPT !.random_seed = random_seed,
                                               !.assignments = placed.assignments],
             sorted_countries |-> SortedBySize(CountryGroups(competitors, remaining)),
             country_group_counts |->
                 FixedCounts(EmptyDict, competitors, fixed_positions, 1),
             gi |-> 1],
         groups |-> placed.groups]

\* lines 192-196: the open seats of a group, in seat order
AvailablePositions(group) ==
    SelectSeq(group.positions, LAMBDA pos : pos \notin DOMAIN group.assigned_positions)

\* the groups that still have an open seat, in dict order
OpenGroups(groups) ==
    SelectSeq([i \in DOMAIN groups |-> groups[i].id],
              LAMBDA gid : AvailablePositions(GroupOf(groups, gid)) # <<>>)

\* the open groups with the most of the country (the comparison of line 181 turned)
BestGroupsMost(groups, counts, country) ==
    LET open == OpenGroups(groups)
    IN  SelectSeq(open, LAMBDA gid :
            \A h \in Range(open) : Get0(counts, <<country, gid>>) >= Get0(counts, <<country, h>>))

\* lines 170-185: best_groups, the open groups with the fewest of the country
BestGroups(groups, counts, country) ==
    LET open == OpenGroups(groups)
    IN  SelectSeq(open, LAMBDA gid :
            \A h \in Range(open) : Get0(counts, <<country, gid>>) <= Get0(counts, <<country, h>>))

\* The two loops of lines 163 and 168 are kept as what they have still to
\* visit: sorted_countries holds the countries not yet finished, and the first
\* one's comp_names the competitors not yet dealt (entries behind the loop
\* position are never read again).

\* line 165: the country's list is shuffled in place
sca_shuffle(sca, ds) ==
    [sca EXCEPT !.sorted_countries[1].comp_names = ShuffleWith(@, ds, 1)]

\* after a competitor is dealt: the next one, or the next country
NextTurn(sca) ==
    IF Len(sca.sorted_countries[1].comp_names) > 1
    THEN [sca EXCEPT !.sorted_countries[1].comp_names = Tail(@)]
    ELSE [sca EXCEPT !.sorted_countries = Tail(@)]

\* lines 168-208 for one competitor; d1 and d2 are the two random.choice draws
sca_place(sca, groups, d1, d2) ==
    LET country == sca.sorted_countries[1].country
        comp_name == sca.sorted_countries[1].comp_names[1]
        best_groups == BestGroups(groups, sca.country_group_counts, country)
    IN  IF best_groups = <<>> THEN [sca |-> NextTurn(sca), groups |-> groups]
        ELSE LET selected_group_id == best_groups[d1 + 1]
                 gi == GroupIdx(groups, selected_group_id)
                 selected_position == AvailablePositions(groups[gi])[d2 + 1]
                 key == <<country, selected_group_id>>
             IN  [sca |-> NextTurn(
                      [sca EXCEPT !.assignment.assignments =
                                      Put(@, <<selected_group_id, selected_position>>, comp_name),
                                  !.country_group_counts = Put(@, key, Get0(@, key) + 1)]),
                  groups |-> [groups EXCEPT ![gi].assigned_positions =
                                 Put(@, selected_position, comp_name)]]

\* every seat of the group, the pinned ones too (the test of line 223 left out)
NonFixedPositionsAll(group, fixed_positions) ==
    [i \in DOMAIN group.positions |-> <<group.id, group.positions[i]>>]

\* lines 212-226: the seats of a group no pin names, in seat order
NonFixedPositions(group, fixed_positions) ==
    SelectSeq([i \in DOMAIN group.positions |-> <<group.id, group.positions[i]>>],
              LAMBDA seat : seat \notin {PinSeat(fixed_positions[j]) :
                                            j \in DOMAIN fixed_positions})

\* lines 231-234
CompetitorsAt(assignments, seats) ==
    LET held == SelectSeq(seats, LAMBDA seat : seat \in DOMAIN assignments)
    IN  [i \in DOMAIN held |-> assignments[held[i]]]

\* lines 229, 237: whether the group's free seats are reshuffled
Reshuffles(assignments, group, fixed_positions) ==
    LET seats == NonFixedPositions(group, fixed_positions)
    IN  seats # <<>> /\ Len(CompetitorsAt(assignments, seats)) = Len(seats)

\* every free seat gets the first competitor of the shuffled list (the [i] of
\* line 243 left out)
sca_reshuffle_first(sca, group, fixed_positions, ds) ==
    LET seats == NonFixedPositions(group, fixed_positions)
        assignments == sca.assignment.assignments
        shuffled == ShuffleWith(CompetitorsAt(assignments, seats), ds, 1)
    IN  IF Reshuffles(assignments, group, fixed_positions)
        THEN [sca EXCEPT !.gi = @ + 1,
                         !.assignment.assignments =
                             [seat \in DOMAIN assignments |->
                                 IF seat \in Range(seats) THEN shuffled[1]
                                 ELSE assignments[seat]]]
        ELSE [sca EXCEPT !.gi = @ + 1]

\* lines 214-243 for one group; ds are the draws of its random.shuffle
sca_reshuffle(sca, group, fixed_positions, ds) ==
    LET seats == NonFixedPositions(group, fixed_positions)
        assignments == sca.assignment.assignments
        shuffled == ShuffleWith(CompetitorsAt(assignments, seats), ds, 1)
    IN  IF Reshuffles(assignments, group, fixed_positions)
        THEN [sca EXCEPT !.gi = @ + 1,
                         !.assignment.assignments =
                             [seat \in DOMAIN assignments |->
                                 IF seat \in Range(seats)
                                 THEN shuffled[CHOOSE i \in DOMAIN seats : seats[i] = seat]
                                 ELSE assignments[seat]]]
        ELSE [sca EXCEPT !.gi = @ + 1]

\* lines 245-250
sca_finish(sca, competitors) ==
    LET c == calculate_collisions(sca.assignment.assignments, competitors)
    IN  [sca.assignment EXCEPT !.collision_count = c.collision_count,
                               !.per_country_collisions = c.per_country_collisions]

(***************************************************************************)
(* State.                                                                  *)
(***************************************************************************)
VARIABLES
    competitors,      \* competitors_data[hash]: the stored competitors, in dict order
    groups,           \* groups_data[hash]: the stored Group objects, in dict order
    fixed_positions,  \* fixed_positions_data[hash]: the stored pins, in dict order
    gen,              \* the generator of the random module, shared by all calls
    env,              \* the deployment and its clients: threaded server or not,
                      \* the minimization flags and seeds the requests carry
    call              \* per request thread: the frame of its run_draw call

vars == <<competitors, groups, fixed_positions, gen, env, call>>

Procs == {1, 2}

\* max_attempts, line 269
max_attempts == 100

Idle ==
    [pc |-> "idle", random_seed |-> None, minimization |-> TRUE,
     max_time_seconds |-> 0, fixed_positions |-> <<>>, caller |-> "",
     best_assignment |-> None, best_collision_count |-> Inf, attempt |-> 0,
     elapsed |-> 0, fresh_groups |-> <<>>, current_seed |-> None,
     sca |-> <<>>, log |-> <<>>, groups_at_call |-> <<>>,
     returned |-> None, status |-> 0, valid |-> Valid, prev |-> None]

(***************************************************************************)
(* The datasets and requests the model is run on.                          *)
(***************************************************************************)
Names == <<"c1", "c2", "c3", "c4", "c5", "c6">>

Competitors(countries) ==
    [i \in DOMAIN countries |-> Competitor(Names[i], countries[i])]

\* upload_groups, line 402: ids 1, 2, ... with the given capacities
Groups(caps) == [i \in DOMAIN caps |-> Group(IntId(i), caps[i], "Pool")]

OptSeeds == {None} \cup {Some(s) : s \in 0..MaxSeed}

Budgets == 0..MaxBudget

\* a dataset and the requests made on it: the generator, whether the server is
\* threaded, the minimization flags, seeds and budgets of the requests, and
\* whether they name the stored fixed positions (TRUE) or none (FALSE)
Workload(countries, caps, pins, kind, threaded, minimization, seeds, budgets, pinned) ==
    [competitors |-> Competitors(countries), groups |-> Groups(caps),
     fixed_positions |-> pins, gen |-> kind,
     env |-> [threaded |-> threaded, minimization |-> minimization, seeds |-> seeds,
              budgets |-> budgets, pinned |-> pinned]]

\* pins over one group of three: existing and missing competitors and groups,
\* valid and invalid seats, shared seats
PinPool ==
    {Pin(n, g, pos) : n \in {"c1", "c2", "zz"}, g \in {StrId(1), StrId(9)},
                      pos \in {"a", "b", "d"}}

PinLists ==
    {<<>>} \cup {<<x>> : x \in PinPool}
           \cup {xy \in PinPool \X PinPool : xy[1].name # xy[2].name}

\* one group of three with every list of at most two pins, run as single passes
PinnedWorkloads ==
    {Workload(<<"JPN", "JPN", "USA">>, <<3>>, pins, AnyGen, FALSE, {FALSE},
              {Some(0)}, {0}, BOOLEAN) : pins \in PinLists}

\* counts that do not match, a group of four, and one group of three under
\* every kind of request
SmallWorkloads ==
    {Workload(<<"JPN", "JPN", "USA", "USA", "FRA">>, <<3, 3>>, pins, AnyGen, FALSE,
              BOOLEAN, {Some(0)}, {0}, {TRUE}) :
        pins \in {<<>>, <<Pin("zz", StrId(1), "a")>>}}
    \cup {Workload(<<"JPN", "JPN", "USA", "FRA">>, <<4>>, <<Pin("c1", StrId(1), "d")>>,
                   AnyGen, FALSE, {TRUE}, {Some(0)}, {0}, {TRUE})}
    \cup {Workload(<<"JPN", "JPN", "USA">>, <<3>>, <<>>, AnyGen, FALSE, BOOLEAN,
                   OptSeeds, Budgets, {TRUE})}

\* scenario A with every resolution of one attempt, and two datasets whose
\* attempts differ in their collision counts (1 or 2, 0 or 1)
OptimizerWorkloads ==
    {Workload(<<"JPN", "JPN", "JPN", "USA", "USA", "USA">>, <<3, 3>>, <<>>,
              AnyGen, FALSE, {TRUE}, {Some(0)}, {0}, {TRUE}),
     Workload(<<"FRA", "JPN", "JPN", "JPN", "USA", "USA">>, <<3, 3>>,
              <<Pin("c1", StrId(1), "a"), Pin("c2", StrId(1), "b")>>,
              AnyGen, FALSE, {TRUE}, {Some(0)}, Budgets, {TRUE}),
     Workload(<<"FRA", "JPN", "USA", "KOR", "BRA", "FRA">>, <<3, 3>>,
              <<Pin("c1", StrId(2), "a"), Pin("c2", StrId(1), "a")>>,
              AnyGen, FALSE, {TRUE}, {Some(0)}, Budgets, {TRUE})}

\* under the deterministic generator, with a budget no attempt count exhausts:
\* a dataset that never reaches zero collisions, and scenario A
LongWorkloads ==
    {Workload(<<"JPN", "JPN", "USA">>, <<3>>, <<>>, LcgGen(0), FALSE, {TRUE},
              {None, Some(0)}, {0, max_attempts}, {TRUE}),
     Workload(<<"JPN", "USA", "JPN", "USA", "JPN", "USA">>, <<3, 3>>, <<>>,
              LcgGen(0), FALSE, {TRUE}, {Some(0)}, {max_attempts}, {TRUE})}

\* under the deterministic generator, the same request made again and again on
\* one group of three: single passes and optimizer calls, with and without a pin
RepeatWorkloads ==
    {Workload(<<"JPN", "JPN", "USA">>, <<3>>, pins, LcgGen(0), FALSE, BOOLEAN,
              {Some(0)}, {0}, {TRUE}) :
        pins \in {<<>>, <<Pin("c3", StrId(1), "b")>>}}

Workloads ==
    PinnedWorkloads \cup SmallWorkloads \cup OptimizerWorkloads \cup LongWorkloads
        \cup RepeatWorkloads

\* two request threads at once on a dataset every pass of which has no collision
ThreadedWorkloads ==
    {Workload(<<"JPN", "USA", "FRA">>, <<3>>, <<>>, LcgGen(0), TRUE, {TRUE},
              {Some(s) : s \in 0..MaxSeed}, Budgets, {TRUE})}

InitWith(w) ==
    /\ competitors = w.competitors
    /\ groups = w.groups
    /\ fixed_positions = w.fixed_positions
    /\ gen = w.gen
    /\ env = w.env
    /\ call = [p \in Procs |-> Idle]

Init == \E w \in Workloads : InitWith(w)

InitThreaded == \E w \in ThreadedWorkloads : InitWith(w)

(***************************************************************************)
(* run_draw, lines 440-471, up to the first step of the engine.            *)
(***************************************************************************)
\* The request and the result of the last call of the thread that had an
\* explicit seed and returned an Assignment, kept for comparison with the next
\* call.  It is kept for sequential calls under the deterministic generator
\* only: under the open stream two calls may differ in every draw, whatever
\* the code does, and calls that overlap share the generator.
Prev(f) ==
    IF /\ gen.kind = "lcg"
       /\ ~env.threaded
       /\ f.pc = "done"
       /\ f.returned # None
       /\ f.random_seed # None
    THEN Some([random_seed |-> f.random_seed, minimization |-> f.minimization,
               fixed_positions |-> f.fixed_positions,
               assignments |-> Val(f.returned).assignments,
               collision_count |-> Val(f.returned).collision_count])
    ELSE f.prev

\* what run_draw answers once improved_assign_competitors returned r: line 474
\* raises on None and the handler's except answers 500
Answer(f, r) ==
    [f EXCEPT !.pc = "done", !.returned = r,
              !.status = IF r = None THEN 500 ELSE 200,
              !.sca = <<>>, !.fresh_groups = <<>>]

RunDraw(p) ==
    /\ call[p].pc \in {"idle", "done"}
    /\ IF env.threaded THEN TRUE ELSE p = 1
    /\ \E random_seed \in env.seeds, minimization \in env.minimization,
          max_time \in env.budgets,
          fixed \in {IF b THEN fixed_positions ELSE <<>> : b \in env.pinned} :
          LET v == validate_inputs(competitors, groups, fixed)
              f == [Idle EXCEPT !.random_seed = random_seed,
                                !.minimization = minimization,
                                !.max_time_seconds = max_time,
                                !.fixed_positions = fixed,
                                !.groups_at_call = groups,
                                !.valid = v,
                                !.prev = Prev(call[p])]
              \* lines 311-312 and 259-260
              seeded == IF random_seed = None THEN gen
                        ELSE RandomSeed(gen, Val(random_seed))
          IN  IF ~v.ok
              THEN /\ call' = [call EXCEPT ![p] = [f EXCEPT !.pc = "done", !.status = 400]]
                   /\ UNCHANGED gen
              ELSE IF ~minimization
              THEN \* lines 315-318
                   /\ call' = [call EXCEPT ![p] =
                          [f EXCEPT !.pc = "sca", !.caller = "improved",
                                    !.current_seed = random_seed]]
                   /\ gen' = seeded
              ELSE \* lines 321-323, 259-266
                   /\ call' = [call EXCEPT ![p] =
                          [f EXCEPT !.pc = "loop", !.caller = "optimized"]]
                   /\ gen' = seeded
    /\ UNCHANGED <<competitors, groups, fixed_positions, env>>

(***************************************************************************)
(* optimized_systematic_assignment, lines 272-297.                         *)
(***************************************************************************)
\* every attempt run with the seed of the call (the + attempt of line 283 left out)
CurrentSeedSame(random_seed, attempt) == random_seed

\* line 283
CurrentSeed(random_seed, attempt) ==
    IF random_seed = None THEN None ELSE Some(Val(random_seed) + attempt)

\* the attempt runs on the supplied groups themselves (lines 277-280 left out)
FreshGroupsSame(gs) == gs

\* lines 278-280
FreshGroups(gs) == [i \in DOMAIN gs |-> Group(gs[i].id, gs[i].capacity, gs[i].label)]

\* time.time() - start_time at line 274.  Time is counted in units no longer
\* than the shortest pass, so between two readings of the loop the clock has
\* advanced by at least one unit: a reading returns the next unit, or a time
\* beyond the budget.
ClockReadings(f) ==
    {IF f.attempt = 0 THEN 0 ELSE f.elapsed + 1, f.max_time_seconds + 1}

\* the budget never counts as exceeded (the test of line 274 left out)
ExpiredNever(e, max_time_seconds) == FALSE

\* line 274: whether the reading e of the elapsed time exceeds the budget
Expired(e, max_time_seconds) == e > max_time_seconds

\* lines 272-286: the head of the loop
LoopHead(p) ==
    LET f == call[p] IN
    /\ f.pc = "loop"
    /\ IF f.attempt >= max_attempts
       THEN call' = [call EXCEPT ![p] = Answer(f, f.best_assignment)]
       ELSE \E e \in ClockReadings(f) :
              /\ IF Expired(e, f.max_time_seconds)
                 THEN call' = [call EXCEPT ![p] =
                          Answer([f EXCEPT !.elapsed = e], f.best_assignment)]
                 ELSE call' = [call EXCEPT ![p] =
                          [f EXCEPT !.pc = "sca", !.elapsed = e,
                                    !.fresh_groups = FreshGroups(groups),
                                    !.current_seed = CurrentSeed(f.random_seed, f.attempt)]]
    /\ UNCHANGED <<competitors, groups, fixed_positions, gen, env>>

(***************************************************************************)
(* systematic_country_assignment on the groups it was handed: the stored   *)
(* ones from improved_assign_competitors, the fresh ones from the          *)
(* optimizer.                                                              *)
(***************************************************************************)
PassGroups(p) == IF call[p].caller = "improved" THEN groups ELSE call[p].fresh_groups

\* the frame and the stored groups after a step that left the pass's groups as gs
Store(p, f, gs) ==
    IF call[p].caller = "improved"
    THEN call' = [call EXCEPT ![p] = f] /\ groups' = gs
    ELSE call' = [call EXCEPT ![p] = [f EXCEPT !.fresh_groups = gs]] /\ UNCHANGED groups

\* where the pass goes after a step: the country whose list is still unshuffled
\* (fresh), the next competitor, the next group of line 214, or line 245
PcOf(sca, gs, fresh) ==
    IF sca.sorted_countries # <<>>
    THEN (IF fresh THEN "shuffle" ELSE "place")
    ELSE IF sca.gi <= Len(gs) THEN "reshuffle" ELSE "finish"

\* whether the step that dealt a competitor of sca finished the country
LastOfCountry(sca) == Len(sca.sorted_countries[1].comp_names) = 1

\* lines 124-160
ScaBegin(p) ==
    LET f == call[p]
        r == sca_begin(competitors, PassGroups(p), f.fixed_positions, f.current_seed)
    IN  /\ f.pc = "sca"
        /\ gen' = IF f.current_seed = None THEN gen
                  ELSE RandomSeed(gen, Val(f.current_seed))
        /\ Store(p, [f EXCEPT !.sca = r.sca, !.pc = PcOf(r.sca, r.groups, TRUE)], r.groups)
        /\ UNCHANGED <<competitors, fixed_positions, env>>

\* lines 163-165
ShuffleCountry(p) ==
    LET f == call[p] IN
    /\ f.pc = "shuffle"
    /\ LET n == Len(f.sca.sorted_countries[1].comp_names) IN
       /\ \E ds \in ShuffleDraws(gen, n) :
             call' = [call EXCEPT ![p] = [f EXCEPT !.sca = sca_shuffle(f.sca, ds),
                                                   !.pc = "place"]]
       /\ gen' = Advance(gen, IF n <= 1 THEN 0 ELSE n - 1)
    /\ UNCHANGED <<competitors, groups, fixed_positions, env>>

\* lines 168-208 for the next competitor of the country
PlaceCompetitor(p) ==
    LET f == call[p]
        gs == PassGroups(p)
    IN  /\ f.pc = "place"
        /\ LET best == BestGroups(gs, f.sca.country_group_counts,
                                  f.sca.sorted_countries[1].country)
           IN  IF best = <<>>
               THEN /\ LET r == sca_place(f.sca, gs, 0, 0)
                       IN  Store(p, [f EXCEPT !.sca = r.sca,
                                              !.pc = PcOf(r.sca, r.groups, LastOfCountry(f.sca))],
                                 r.groups)
                    /\ UNCHANGED gen
               ELSE /\ \E d1 \in DrawSet(gen, 0, Len(best)) :
                         \E d2 \in DrawSet(gen, 1,
                                       Len(AvailablePositions(GroupOf(gs, best[d1 + 1])))) :
                            LET r == sca_place(f.sca, gs, d1, d2)
                            IN  Store(p, [f EXCEPT !.sca = r.sca,
                                                   !.pc = PcOf(r.sca, r.groups,
                                                               LastOfCountry(f.sca))],
                                      r.groups)
                    /\ gen' = Advance(gen, 2)
        /\ UNCHANGED <<competitors, fixed_positions, env>>

\* lines 214-243 for the next group
ReshuffleGroup(p) ==
    LET f == call[p]
        gs == PassGroups(p)
    IN  /\ f.pc = "reshuffle"
        /\ LET group == gs[f.sca.gi]
               n == IF Reshuffles(f.sca.assignment.assignments, group, f.fixed_positions)
                    THEN Len(NonFixedPositions(group, f.fixed_positions)) ELSE 0
           IN  /\ \E ds \in ShuffleDraws(gen, n) :
                     LET s == sca_reshuffle(f.sca, group, f.fixed_positions, ds)
                     IN  call' = [call EXCEPT ![p] =
                                [f EXCEPT !.sca = s, !.pc = PcOf(s, gs, FALSE)]]
               /\ gen' = Advance(gen, IF n <= 1 THEN 0 ELSE n - 1)
        /\ UNCHANGED <<competitors, groups, fixed_positions, env>>

\* every attempt replaces the best (the comparison of line 289 left out)
BetterAlways(current, best_collision_count) == TRUE

\* lines 289-291: whether the attempt becomes the best
Better(current, best_collision_count) == Less(current, best_collision_count)

\* the loop never stops early (the break of line 295 left out)
PerfectNever(current) == FALSE

\* line 294: whether the loop stops after a new best
Perfect(current) == current = 0

\* lines 245-250, and in the optimizer lines 288-295
ScaReturn(p) ==
    LET f == call[p]
        a == sca_finish(f.sca, competitors)
        logged == [f EXCEPT !.log = Append(@, a.collision_count), !.sca = <<>>]
    IN  /\ f.pc = "finish"
        /\ IF f.caller = "improved"
           THEN call' = [call EXCEPT ![p] = Answer(logged, Some(a))]
           ELSE IF Better(a.collision_count, f.best_collision_count)
           THEN LET g == [logged EXCEPT !.best_assignment = Some(a),
                                        !.best_collision_count = a.collision_count]
                IN  IF Perfect(a.collision_count)
                    THEN call' = [call EXCEPT ![p] = Answer(g, g.best_assignment)]
                    ELSE call' = [call EXCEPT ![p] =
                             [g EXCEPT !.pc = "loop", !.attempt = @ + 1]]
           ELSE call' = [call EXCEPT ![p] = [logged EXCEPT !.pc = "loop", !.attempt = @ + 1]]
        /\ UNCHANGED <<competitors, groups, fixed_positions, gen, env>>

Next ==
    \E p \in Procs :
        \/ RunDraw(p)
        \/ LoopHead(p)
        \/ ScaBegin(p)
        \/ ShuffleCountry(p)
        \/ PlaceCompetitor(p)
        \/ ReshuffleGroup(p)
        \/ ScaReturn(p)

Spec == Init /\ [][Next]_vars

SpecThreaded == InitThreaded /\ [][Next]_vars

\* A request thread that is inside a call keeps running: the head of the
\* optimizer's loop and the steps of a pass are each taken eventually once
\* they stay enabled (weak fairness).  New requests may or may not arrive.
Pass(p) ==
    \/ ScaBegin(p)
    \/ ShuffleCountry(p)
    \/ PlaceCompetitor(p)
    \/ ReshuffleGroup(p)
    \/ ScaReturn(p)

\* thread p is inside a pass: exactly then one of the steps of Pass(p) is
\* enabled (each is guarded by its pc alone and changes the frame)
Running(p) == call[p].pc \in {"sca", "shuffle", "place", "reshuffle", "finish"}

\* WF_vars(Pass(p)) with ENABLED <<Pass(p)>>_vars written out as Running(p)
PassFair(p) == []<>(~Running(p)) \/ []<><<Pass(p)>>_vars

Fairness == \A p \in Procs : WF_vars(LoopHead(p)) /\ PassFair(p)

\* the datasets on which requests reach the optimizer
InitFair ==
    \E w \in SmallWorkloads \cup OptimizerWorkloads \cup LongWorkloads
                \cup RepeatWorkloads : InitWith(w)

SpecFair == InitFair /\ [][Next]_vars /\ Fairness

(***************************************************************************)
(* A call run alone under the deterministic generator: the passes of the   *)
(* optimizer with nothing else drawing from the generator.                 *)
(***************************************************************************)
TheOne(S) == CHOOSE x \in S : TRUE

RECURSIVE RunPass(_, _, _, _, _)
\* the Assignment a pass returns from state sca on groups gs with generator g
RunPass(sca, gs, g, fixed, fresh) ==
    IF sca.sorted_countries # <<>>
    THEN IF fresh
         THEN LET n == Len(sca.sorted_countries[1].comp_names)
              IN  RunPass(sca_shuffle(sca, TheOne(ShuffleDraws(g, n))), gs,
                          Advance(g, IF n <= 1 THEN 0 ELSE n - 1), fixed, FALSE)
         ELSE LET best == BestGroups(gs, sca.country_group_counts,
                                     sca.sorted_countries[1].country)
              IN  IF best = <<>>
                  THEN RunPass(sca_place(sca, gs, 0, 0).sca, gs, g, fixed,
                               LastOfCountry(sca))
                  ELSE LET d1 == TheOne(DrawSet(g, 0, Len(best)))
                           d2 == TheOne(DrawSet(g, 1,
                                    Len(AvailablePositions(GroupOf(gs, best[d1 + 1])))))
                           r == sca_place(sca, gs, d1, d2)
                       IN  RunPass(r.sca, r.groups, Advance(g, 2), fixed,
                                   LastOfCountry(sca))
    ELSE IF sca.gi <= Len(gs)
    THEN LET group == gs[sca.gi]
             n == IF Reshuffles(sca.assignment.assignments, group, fixed)
                  THEN Len(NonFixedPositions(group, fixed)) ELSE 0
         IN  RunPass(sca_reshuffle(sca, group, fixed, TheOne(ShuffleDraws(g, n))), gs,
                     Advance(g, IF n <= 1 THEN 0 ELSE n - 1), fixed, FALSE)
    ELSE sca_finish(sca, competitors)

\* attempt i of a call with seed s, alone
AloneAttempt(s, i, fixed) ==
    LET r == sca_begin(competitors, FreshGroups(groups), fixed, Some(s + i))
    IN  RunPass(r.sca, r.groups, RandomSeed(LcgGen(0), s + i), fixed, TRUE)

RECURSIVE AloneBest(_, _, _, _, _)
\* what the optimizer returns with seed s when the budget ends after k attempts
AloneBest(s, k, fixed, i, best) ==
    IF i >= k \/ i >= max_attempts THEN best
    ELSE LET a == AloneAttempt(s, i, fixed)
         IN  IF best = None \/ a.collision_count < Val(best).collision_count
             THEN (IF a.collision_count = 0 THEN Some(a)
                   ELSE AloneBest(s, k, fixed, i + 1, Some(a)))
             ELSE AloneBest(s, k, fixed, i + 1, best)

(***************************************************************************)
(* Vocabulary of the claims.                                               *)
(***************************************************************************)
Done(p) == call[p].pc = "done"
Returned(p) == call[p].pc = "done" /\ call[p].returned # None
Result(p) == Val(call[p].returned)
InPass(p) == call[p].pc \in {"shuffle", "place", "reshuffle", "finish"}

\* every (group_id, position) of the groups
AllSeats(gs) ==
    UNION {{<<gs[i].id, gs[i].positions[j]>> : j \in DOMAIN gs[i].positions} :
              i \in DOMAIN gs}

\* each seat holds one competitor and each competitor sits at exactly one seat
Covers(assignments) ==
    /\ DOMAIN assignments = AllSeats(groups)
    /\ \A n \in CompNames(competitors) :
          Cardinality({k \in DOMAIN assignments : assignments[k] = n}) = 1
    /\ \A k \in DOMAIN assignments : assignments[k] \in CompNames(competitors)

\* every pin's competitor sits at its pinned seat and nowhere else
PinsHeld(assignments, fixed) ==
    \A i \in DOMAIN fixed :
        /\ PinSeat(fixed[i]) \in DOMAIN assignments
        /\ \A k \in DOMAIN assignments :
              (assignments[k] = fixed[i].name) <=> (k = PinSeat(fixed[i]))

\* the inputs are well formed, stated without reference to the order of checks
WellFormed(cs, gs, fixed) ==
    /\ Len(cs) = SumSeq([i \in DOMAIN gs |-> gs[i].capacity])
    /\ \A i \in DOMAIN fixed :
          /\ \E c \in Range(cs) : c.name = fixed[i].name
          /\ \E g \in Range(gs) :
                /\ g.id = Str(fixed[i].group_id)
                /\ \E j \in 1..g.capacity : j <= Len(Letters) /\ Letters[j] = fixed[i].position
    /\ \A i, j \in DOMAIN fixed :
          i # j => <<Str(fixed[i].group_id), fixed[i].position>>
                     # <<Str(fixed[j].group_id), fixed[j].position>>

Countries == {competitors[i].country : i \in DOMAIN competitors}

\* C(n, 2)
Choose2(n) == (n * (n - 1)) \div 2

\* the number of competitors of a country that an assignment seats in a group
InGroup(assignments, g, country) ==
    Cardinality({pos \in Range(Letters) :
                    /\ <<g, pos>> \in DOMAIN assignments
                    /\ \E c \in Range(competitors) :
                          c.name = assignments[<<g, pos>>] /\ c.country = country})

\* sum over groups of C(n, 2) for one country
CountryPairs(assignments, country) ==
    SumOver(GroupIds(groups), [g \in GroupIds(groups) |->
                                  Choose2(InGroup(assignments, g, country))])

TotalPairs(assignments) ==
    SumOver(Countries, [c \in Countries |-> CountryPairs(assignments, c)])

ScenarioA ==
    /\ Len(competitors) = 6
    /\ Cardinality({i \in DOMAIN competitors : competitors[i].country = "JPN"}) = 3
    /\ Cardinality({i \in DOMAIN competitors : competitors[i].country = "USA"}) = 3
    /\ [i \in DOMAIN groups |-> groups[i].capacity] = <<3, 3>>
    /\ fixed_positions = <<>>

(***************************************************************************)
(* Claims.                                                                 *)
(***************************************************************************)

\* C1: every Assignment returned for validated inputs, in any sequence of calls
\* on the same stored datasets, holds exactly one competitor at every seat of
\* every group and every competitor at exactly one seat.
C1_SeatCoverage ==
    \A p \in Procs : Returned(p) => Covers(Result(p).assignments)

\* C2: in every Assignment returned, and at every step of the pass that builds
\* it, each fixed position's competitor sits at exactly its pinned seat: neither
\* the placement nor the reshuffle overwrites or relocates a pinned seat.
C2_PinInvariance ==
    \A p \in Procs :
        /\ InPass(p) => PinsHeld(call[p].sca.assignment.assignments, call[p].fixed_positions)
        /\ Returned(p) => PinsHeld(Result(p).assignments, call[p].fixed_positions)

C2_Witness ==
    \E p \in Procs :
        /\ Returned(p)
        /\ Len(call[p].fixed_positions) = 2
        /\ Len(groups) = 2
        /\ call[p].log = <<2, 1>>

\* C3: validate_inputs returns True exactly when the counts match, every fixed
\* position names an existing competitor, an existing group and a seat of that
\* group, and no two fixed positions share a seat.
C3_ValidateIff ==
    \A p \in Procs :
        call[p].pc # "idle" =>
            /\ call[p].valid.ok <=>
                   WellFormed(competitors, call[p].groups_at_call, call[p].fixed_positions)
            /\ call[p].valid.ok <=> call[p].valid.error = ""
            /\ ~call[p].valid.ok <=> call[p].status = 400

C3_Witness ==
    \E p \in Procs :
        /\ call[p].pc = "done"
        /\ call[p].valid.error = "duplicate"
        /\ Len(call[p].fixed_positions) = 2

\* C4: for every assignment, partial or complete, the total calculate_collisions
\* returns is the sum of its per-country values, each per-country value is the
\* sum over groups of n*(n-1)/2 for the country's n competitors in the group,
\* and the collision_count stored in a returned Assignment is that formula on
\* its final mapping.
C4_CollisionFormula ==
    \A p \in Procs :
        /\ InPass(p) =>
              LET a == call[p].sca.assignment.assignments
                  r == calculate_collisions(a, competitors)
              IN  /\ r.collision_count =
                         SumOver(DOMAIN r.per_country_collisions, r.per_country_collisions)
                  /\ \A c \in Countries :
                         Get0(r.per_country_collisions, c) = CountryPairs(a, c)
        /\ Returned(p) =>
              /\ Result(p).collision_count = TotalPairs(Result(p).assignments)
              /\ \A c \in Countries :
                     Get0(Result(p).per_country_collisions, c)
                         = CountryPairs(Result(p).assignments, c)

C4_Witness ==
    \E p \in Procs :
        /\ Returned(p)
        /\ Result(p).collision_count = 2
        /\ DOMAIN Result(p).per_country_collisions = {"JPN", "USA"}

\* C5: when the optimizer ran at least one attempt, the collision_count of the
\* Assignment it returns is at most the collision_count of every attempt it ran.
C5_Monotonic ==
    \A p \in Procs :
        (Done(p) /\ call[p].caller = "optimized" /\ call[p].log # <<>>) =>
            /\ call[p].returned # None
            /\ \A i \in DOMAIN call[p].log : Result(p).collision_count <= call[p].log[i]

C5_Witness ==
    \E p \in Procs :
        /\ Returned(p)
        /\ call[p].caller = "optimized"
        /\ Len(call[p].log) >= 2
        /\ call[p].log[1] < call[p].log[2]

\* C6: as soon as an attempt of the optimizer yields collision_count 0 the loop
\* stops: the call returns that attempt's Assignment and no attempt follows it.
C6_ZeroEndsCall ==
    \A p \in Procs :
        (call[p].caller = "optimized" /\ call[p].log # <<>>) =>
            /\ \A i \in 1..(Len(call[p].log) - 1) : call[p].log[i] # 0
            /\ call[p].log[Len(call[p].log)] = 0 =>
                  /\ Returned(p)
                  /\ Result(p).collision_count = 0
                  /\ Result(p).random_seed =
                         CurrentSeed(call[p].random_seed, Len(call[p].log) - 1)

C6_ZeroIsReturned ==
    \A p \in Procs :
        (/\ call[p].pc = "finish"
         /\ call[p].caller = "optimized"
         /\ sca_finish(call[p].sca, competitors).collision_count = 0
         /\ call'[p] # call[p])
        => /\ call'[p].pc = "done"
           /\ call'[p].returned = Some(sca_finish(call[p].sca, competitors))

\* C6: both parts: in every state a zero attempt is the last of its call and
\* its Assignment is the result, and the step that ends a zero attempt returns
\* that attempt's Assignment.
C6_EarlyExit == [](C6_ZeroEndsCall) /\ [][C6_ZeroIsReturned]_vars

C6_Witness ==
    \E p \in Procs :
        /\ Returned(p)
        /\ call[p].log = <<1, 0>>

\* C7: when the budget is exceeded before the first attempt (no attempt ran),
\* the optimizer call ends in an error; it does not return None as a result.
\* (The code has no raise: a call that returns hands back a value or None.)
C7_NoSilentNone ==
    \A p \in Procs :
        (Done(p) /\ call[p].caller = "optimized" /\ call[p].log = <<>>) =>
            call[p].returned # None

\* C8 as claimed: in scenario A the optimizer returns collision_count 1.
C8_ScenarioA_One ==
    \A p \in Procs :
        (ScenarioA /\ Returned(p) /\ call[p].caller = "optimized") =>
            Result(p).collision_count = 1

\* C8 amended: in scenario A every attempt yields collision_count 2, and so
\* does the Assignment the optimizer returns when at least one attempt ran.
C8_ScenarioA_Two ==
    \A p \in Procs :
        (ScenarioA /\ call[p].caller = "optimized") =>
            /\ \A i \in DOMAIN call[p].log : call[p].log[i] = 2
            /\ Returned(p) => Result(p).collision_count = 2

C8_Witness ==
    \E p \in Procs :
        /\ ScenarioA
        /\ gen.kind = "any"
        /\ Returned(p)
        /\ call[p].caller = "optimized"
        /\ call[p].log = <<2>>

\* C9: two calls with explicit seeds that run at once each return the
\* Assignment they would return alone with that seed (for some number of
\* attempts the budget allows).
C9_CallScoped ==
    \A p \in Procs :
        (Returned(p) /\ call[p].caller = "optimized" /\ call[p].random_seed # None
            /\ gen.kind = "lcg") =>
            \E k \in 1..max_attempts :
                call[p].returned =
                    AloneBest(Val(call[p].random_seed), k, call[p].fixed_positions, 0, None)

\* C10: after a call the stored groups hold the seat occupancy they held before
\* it (the competitors and fixed positions are never written).
C10_InputsReadOnly ==
    \A p \in Procs : Done(p) => groups = call[p].groups_at_call

\* C11: two sequential calls of the engine with the same explicit seed, the same
\* minimization flag and the same competitors, groups and fixed positions
\* return the same seat mapping and the same collision count.
C11_Determinism ==
    \A p \in Procs :
        (/\ Returned(p)
         /\ call[p].prev # None
         /\ call[p].random_seed # None
         /\ Val(call[p].prev).random_seed = call[p].random_seed
         /\ Val(call[p].prev).minimization = call[p].minimization
         /\ Val(call[p].prev).fixed_positions = call[p].fixed_positions)
        => /\ Result(p).assignments = Val(call[p].prev).assignments
           /\ Result(p).collision_count = Val(call[p].prev).collision_count

\* the check that fails first when each check is made over all the fixed
\* positions before the next check is made: count, competitor, group, seat,
\* shared seat
FirstFailedCheck(cs, gs, fixed) ==
    IF Len(cs) # SumSeq([i \in DOMAIN gs |-> gs[i].capacity]) THEN "count"
    ELSE IF \E i \in DOMAIN fixed : \A c \in Range(cs) : c.name # fixed[i].name
    THEN "competitor"
    ELSE IF \E i \in DOMAIN fixed : \A g \in Range(gs) : g.id # Str(fixed[i].group_id)
    THEN "group"
    ELSE IF \E i \in DOMAIN fixed : \E g \in Range(gs) :
                /\ g.id = Str(fixed[i].group_id)
                /\ \A j \in 1..Min(g.capacity, Len(Letters)) : Letters[j] # fixed[i].position
    THEN "position"
    ELSE IF \E i, j \in DOMAIN fixed :
                /\ i # j
                /\ Str(fixed[i].group_id) = Str(fixed[j].group_id)
                /\ fixed[i].position = fixed[j].position
    THEN "duplicate"
    ELSE ""

\* C12: when the inputs fail several checks, validate_inputs reports the
\* earliest in the order count mismatch, missing competitor (in any fixed
\* position), missing group (in any), invalid seat (in any), shared seat.
C12_CheckOrder ==
    \A p \in Procs :
        call[p].pc # "idle" =>
            call[p].valid.error =
                FirstFailedCheck(competitors, call[p].groups_at_call, call[p].fixed_positions)

\* a competitor of the pass of p still needs placement and no group of the
\* pass has an open seat
NoSeatLeft(p) ==
    /\ call[p].pc = "place"
    /\ \A i \in DOMAIN PassGroups(p) :
          Range(PassGroups(p)[i].positions) \subseteq DOMAIN PassGroups(p)[i].assigned_positions

\* C13: when a competitor still needs placement while no group has an open
\* seat, the next step of the call ends it in an error (no Assignment is
\* returned); the pass does not go on to the next competitor or to its end.
C13_LoudFailure ==
    [][\A p \in Procs :
          (NoSeatLeft(p) /\ call'[p] # call[p]) =>
              /\ call'[p].pc = "done"
              /\ call'[p].returned = None
              /\ call'[p].status = 500]_vars

\* the ids of the groups of the pass of p that have a seat nobody occupies
OpenIds(p) ==
    {PassGroups(p)[i].id : i \in
        {j \in DOMAIN PassGroups(p) :
            ~(Range(PassGroups(p)[j].positions)
                 \subseteq DOMAIN PassGroups(p)[j].assigned_positions)}}

\* the step of p from s to t commits competitor name to one seat that was
\* unoccupied, in an open group that holds the fewest of the competitor's
\* country among the open groups, and changes no other seat
GreedyCommit(p, s, t, name) ==
    \E k \in DOMAIN t :
        /\ k \notin DOMAIN s
        /\ k[1] \in OpenIds(p)
        /\ k[2] \in Range(GroupOf(PassGroups(p), k[1]).positions)
        /\ k[2] \notin DOMAIN GroupOf(PassGroups(p), k[1]).assigned_positions
        /\ DOMAIN t = DOMAIN s \cup {k}
        /\ t[k] = name
        /\ \A j \in DOMAIN s : t[j] = s[j]
        /\ \A h \in OpenIds(p) :
              InGroup(s, k[1], CountryOf(competitors, name))
                  <= InGroup(s, h, CountryOf(competitors, name))

\* C14: whenever the pass deals a non-pinned competitor while some group has
\* an open seat, it commits the competitor to an unoccupied seat of an open
\* group whose count of seated competitors of the same country, pins included,
\* is the minimum over the open groups.  (No open seat at all is the case of
\* C13.)
C14_GreedyMinimum ==
    [][\A p \in Procs :
          (call[p].pc = "place" /\ OpenIds(p) # {} /\ call'[p] # call[p]) =>
              /\ call[p].sca.sorted_countries[1].comp_names[1]
                     \notin PinNames(call[p].fixed_positions)
              /\ GreedyCommit(p, call[p].sca.assignment.assignments,
                              call'[p].sca.assignment.assignments,
                              call[p].sca.sorted_countries[1].comp_names[1])]_vars

\* a pass with two pins in group 1 has committed its first free competitor,
\* and the two groups hold different numbers of some country
C14_Witness ==
    \E p \in Procs :
        /\ call[p].pc = "place"
        /\ Len(call[p].fixed_positions) = 2
        /\ Len(groups) = 2
        /\ Cardinality(DOMAIN call[p].sca.assignment.assignments) = 3
        /\ \E c \in Countries :
              InGroup(call[p].sca.assignment.assignments, StrId(1), c)
                  # InGroup(call[p].sca.assignment.assignments, StrId(2), c)

\* the competitors a mapping seats in group g
Members(assignments, g) == {assignments[k] : k \in SeatsOfGroup(assignments, g)}

\* mapping t is mapping s with the competitors at the seats of group g that no
\* pin names permuted among those seats
PermutedWithin(s, t, g, fixed) ==
    /\ DOMAIN t = DOMAIN s
    /\ \A k \in DOMAIN s :
          t[k] # s[k] => (k[1] = g /\ \A i \in DOMAIN fixed : PinSeat(fixed[i]) # k)
    /\ \A h \in GroupIds(groups) : Members(t, h) = Members(s, h)
    /\ \A n \in CompNames(competitors) :
          Cardinality({k \in DOMAIN t : t[k] = n}) = Cardinality({k \in DOMAIN s : s[k] = n})
    /\ TotalPairs(t) = TotalPairs(s)
    /\ calculate_collisions(t, competitors) = calculate_collisions(s, competitors)

\* C15: a reshuffle step only permutes competitors among the non-fixed seats
\* of its group: every group holds the same set of competitors after it as
\* before, nobody is duplicated or lost, the collision count is unchanged.
C15_ReshuffleFrame ==
    [][\A p \in Procs :
          (call[p].pc = "reshuffle" /\ call'[p] # call[p]) =>
              PermutedWithin(call[p].sca.assignment.assignments,
                             call'[p].sca.assignment.assignments,
                             PassGroups(p)[call[p].sca.gi].id,
                             call[p].fixed_positions)]_vars

\* group 1 of a pass with two pins has been reshuffled and a competitor sits
\* at another seat than the one the placement gave it
C15_Witness ==
    \E p \in Procs :
        /\ call[p].pc \in {"reshuffle", "finish"}
        /\ call[p].sca.gi > 1
        /\ Len(call[p].fixed_positions) = 2
        /\ \E pos \in DOMAIN PassGroups(p)[1].assigned_positions :
              /\ <<PassGroups(p)[1].id, pos>> \in DOMAIN call[p].sca.assignment.assignments
              /\ call[p].sca.assignment.assignments[<<PassGroups(p)[1].id, pos>>]
                     # PassGroups(p)[1].assigned_positions[pos]

\* C16: every attempt of the optimizer starts on groups of empty occupancy
\* with the ids, capacities, labels and seat labels of the supplied groups,
\* whatever the supplied groups or the previous attempt's groups hold.
C16_PerAttemptReset ==
    \A p \in Procs :
        (call[p].pc = "sca" /\ call[p].caller = "optimized") =>
            /\ DOMAIN call[p].fresh_groups = DOMAIN groups
            /\ \A i \in DOMAIN groups :
                  /\ call[p].fresh_groups[i].assigned_positions = EmptyDict
                  /\ call[p].fresh_groups[i].id = groups[i].id
                  /\ call[p].fresh_groups[i].capacity = groups[i].capacity
                  /\ call[p].fresh_groups[i].label = groups[i].label
                  /\ call[p].fresh_groups[i].positions = groups[i].positions

\* a second attempt starts while the supplied groups are still occupied from
\* an earlier single pass
C16_Witness ==
    \E p \in Procs :
        /\ call[p].pc = "sca"
        /\ call[p].caller = "optimized"
        /\ call[p].attempt >= 1
        /\ \E i \in DOMAIN groups :
              DOMAIN groups[i].assigned_positions = Range(groups[i].positions)

\* the optimizer never holds more than 100 attempts, and an attempt that is
\* starting was admitted at an elapsed time within the budget
C17_Bounds ==
    \A p \in Procs :
        call[p].caller = "optimized" =>
            /\ Len(call[p].log) <= 100
            /\ call[p].attempt <= 100
            /\ call[p].pc = "sca" =>
                  /\ call[p].attempt < 100
                  /\ call[p].elapsed <= call[p].max_time_seconds

\* C17: a call of the optimizer always terminates, runs at most 100 attempts,
\* and starts no attempt once the elapsed time exceeds max_time_seconds.
C17_BoundedSearch ==
    /\ []C17_Bounds
    /\ \A p \in Procs :
          (call[p].caller = "optimized" /\ call[p].pc # "done") ~> Done(p)

\* a call that ran all its 100 attempts within the budget and returned
C17_Witness ==
    \E p \in Procs :
        /\ Returned(p)
        /\ call[p].caller = "optimized"
        /\ Len(call[p].log) = 100
        /\ call[p].elapsed <= call[p].max_time_seconds

\* C18: in a call of the optimizer with seed s, attempt i (0-indexed) runs
\* with seed s + i: it is the seed handed to the pass, recorded in the pass's
\* Assignment, and (under the deterministic generator) the attempt yields what
\* a pass seeded with s + i yields; the random_seed of the returned Assignment
\* is the seed s + i of an attempt i that produced its collision count.
C18_SeedDerivation ==
    \A p \in Procs :
        (call[p].caller = "optimized" /\ call[p].random_seed # None) =>
            /\ (call[p].pc = "sca" \/ InPass(p)) =>
                  /\ call[p].attempt = Len(call[p].log)
                  /\ call[p].current_seed = Some(Val(call[p].random_seed) + call[p].attempt)
            /\ InPass(p) =>
                  call[p].sca.assignment.random_seed =
                      Some(Val(call[p].random_seed) + call[p].attempt)
            /\ Returned(p) =>
                  \E i \in DOMAIN call[p].log :
                      /\ call[p].log[i] = Result(p).collision_count
                      /\ Result(p).random_seed = Some(Val(call[p].random_seed) + i - 1)
                      /\ gen.kind = "lcg" =>
                            Result(p) = AloneAttempt(Val(call[p].random_seed), i - 1,
                                                     call[p].fixed_positions)

\* a call with seed 0 returned the Assignment of its second attempt, seed 1
C18_Witness ==
    \E p \in Procs :
        /\ Returned(p)
        /\ call[p].caller = "optimized"
        /\ call[p].random_seed = Some(0)
        /\ Len(call[p].log) = 2
        /\ Result(p).random_seed = Some(1)

\* the index of the earliest attempt of a log that reached the log's minimum
FirstMin(log) ==
    CHOOSE i \in DOMAIN log :
        /\ \A j \in DOMAIN log : log[i] <= log[j]
        /\ \A j \in 1..(i - 1) : log[j] > log[i]

\* the best Assignment of the optimizer is the one of the earliest attempt
\* that reached the minimum count so far (told apart by its derived seed),
\* and the call returns it
C19_Earliest ==
    \A p \in Procs :
        (call[p].caller = "optimized" /\ call[p].log # <<>>) =>
            /\ call[p].best_assignment # None
            /\ Val(call[p].best_assignment).collision_count
                   = call[p].log[FirstMin(call[p].log)]
            /\ call[p].best_collision_count = call[p].log[FirstMin(call[p].log)]
            /\ call[p].random_seed # None =>
                  Val(call[p].best_assignment).random_seed =
                      Some(Val(call[p].random_seed) + FirstMin(call[p].log) - 1)
            /\ Done(p) => call[p].returned = call[p].best_assignment

\* the end of an attempt whose count is not below the best count leaves the
\* best Assignment as it is
C19_TieKeeps ==
    \A p \in Procs :
        (/\ call[p].pc = "finish"
         /\ call[p].caller = "optimized"
         /\ call[p].best_assignment # None
         /\ sca_finish(call[p].sca, competitors).collision_count
                >= Val(call[p].best_assignment).collision_count
         /\ call'[p] # call[p])
        => /\ call'[p].best_assignment = call[p].best_assignment
           /\ call'[p].best_collision_count = call[p].best_collision_count

\* C19: the Assignment the optimizer returns is the one of the earliest
\* attempt that reached the minimum collision_count among the attempts run; a
\* later attempt with an equal count never replaces the current best.
C19_TieHandling == []C19_Earliest /\ [][C19_TieKeeps]_vars

\* a call with seed 0 ran two attempts of equal count and returned the first
C19_Witness ==
    \E p \in Procs :
        /\ Returned(p)
        /\ call[p].caller = "optimized"
        /\ call[p].random_seed = Some(0)
        /\ call[p].log = <<1, 1>>
        /\ Result(p).random_seed = Some(0)

====
